---- MODULE Spec2Model ----
(***************************************************************************)
(* Model of examples/hello-mcp-python/server.py: the two handlers          *)
(* registered on the MCP server object (list_tools, call_tool), driven by  *)
(* a transport that issues requests concurrently, and the ambient wall     *)
(* clock read by the "time" tool.                                          *)
(*                                                                         *)
(* Python strings are TLA+ strings (TLC concatenates them with \o and      *)
(* slices them with SubSeq).  A Python value is a tagged record:           *)
(* [str |-> s] for a str, [int |-> i] for an int.  A dict is a function    *)
(* from its keys.  An outcome of a handler is [ok |-> <returned value>]    *)
(* or [raised |-> [exc |-> <exception class>, args |-> <its args>]].       *)
(***************************************************************************)
EXTENDS Integers, Sequences, FiniteSets, TLC

VARIABLES
    now,        \* the wall clock, in ticks since the epoch of the model
    pending,    \* requests the transport has issued and no handler has run yet
    last,       \* the most recent handler invocation and its outcome
    mark,       \* an earlier invocation of a tool, remembered by the client
    backSinceLast,  \* the wall clock was set back since the "time" call in last
    backSinceMark   \* the wall clock was set back since the "time" call in mark

vars == <<now, pending, last, mark, backSinceLast, backSinceMark>>

-----------------------------------------------------------------------------
(* Bounds of the model *)

MaxClock == 2
MaxInFlight == 2
TicksPerSecond == 2

(* datetime resolution: microseconds in a second *)
MicrosPerSecond == 1000000

None == [none |-> TRUE]

-----------------------------------------------------------------------------
(* Inputs *)

PyStr(s) == [str |-> s]
PyInt(i) == [int |-> i]
IsStr(v) == DOMAIN v = {"str"}

EmptyDict == [k \in {} |-> None]

Names == {"hello", "time", "bogus"}

ArgMaps ==
    { EmptyDict,
      [k \in {"name"} |-> PyStr("Ada")],
      [k \in {"name", "lang"} |-> IF k = "name" THEN PyStr("Bob") ELSE PyInt(2)] }

ListRequest == [op |-> "list"]
CallRequest(name, arguments) == [op |-> "call", name |-> name, arguments |-> arguments]

Requests == {ListRequest} \cup {CallRequest(n, a) : n \in Names, a \in ArgMaps}

-----------------------------------------------------------------------------
(* Python helpers *)

Ok(v) == [ok |-> v]
Raise(exc, args) == [raised |-> [exc |-> exc, args |-> args]]
IsOk(o) == DOMAIN o = {"ok"}
IsRaised(o) == DOMAIN o = {"raised"}

TextContent(text) == [type |-> "text", text |-> text]

\* format(v, "") as an f-string replacement field applies it
Format(v) == IF IsStr(v) THEN v.str ELSE ToString(v.int)

RECURSIVE ZeroPad(_, _)
ZeroPad(s, width) == IF Len(s) >= width THEN s ELSE ZeroPad("0" \o s, width)

\* datetime.now(): the wall clock as (second, microsecond)
Second(t) == t \div TicksPerSecond
Microsecond(t) == (t % TicksPerSecond) * (MicrosPerSecond \div TicksPerSecond)

\* Variant: isoformat(timespec="seconds"), which never prints the fraction
isoformat_DropsFraction(t) ==
    "2024-01-01T00:00:" \o ZeroPad(ToString(Second(t)), 2)

\* Variant: the second is printed without its leading zero
isoformat_UnpaddedSecond(t) ==
    "2024-01-01T00:00:" \o ToString(Second(t))
        \o (IF Microsecond(t) = 0 THEN ""
            ELSE "." \o ZeroPad(ToString(Microsecond(t)), 6))

\* datetime.isoformat(): the fraction is printed only when it is not zero
isoformat(t) ==
    "2024-01-01T00:00:" \o ZeroPad(ToString(Second(t)), 2)
        \o (IF Microsecond(t) = 0 THEN ""
            ELSE "." \o ZeroPad(ToString(Microsecond(t)), 6))

-----------------------------------------------------------------------------
(* The handlers *)

\* Variant: the descriptors in the other order
list_tools_TimeFirst ==
    << [name |-> "time",
        description |-> "Get the current time",
        inputSchema |-> [type |-> "object", properties |-> EmptyDict]],
       [name |-> "hello",
        description |-> "Say hello to someone",
        inputSchema |->
            [type |-> "object",
             properties |->
                [k \in {"name"} |->
                    [type |-> "string", description |-> "The name to greet"]],
             required |-> <<"name">>]] >>

\* Variant: the greeting tool registered under another name
list_tools_Greet ==
    << [name |-> "greet",
        description |-> "Say hello to someone",
        inputSchema |->
            [type |-> "object",
             properties |->
                [k \in {"name"} |->
                    [type |-> "string", description |-> "The name to greet"]],
             required |-> <<"name">>]],
       [name |-> "time",
        description |-> "Get the current time",
        inputSchema |-> [type |-> "object", properties |-> EmptyDict]] >>

\* Variant: the schema of hello does not require "name"
list_tools_NameOptional ==
    << [name |-> "hello",
        description |-> "Say hello to someone",
        inputSchema |->
            [type |-> "object",
             properties |->
                [k \in {"name"} |->
                    [type |-> "string", description |-> "The name to greet"]]]],
       [name |-> "time",
        description |-> "Get the current time",
        inputSchema |-> [type |-> "object", properties |-> EmptyDict]] >>

list_tools ==
    << [name |-> "hello",
        description |-> "Say hello to someone",
        inputSchema |->
            [type |-> "object",
             properties |->
                [k \in {"name"} |->
                    [type |-> "string", description |-> "The name to greet"]],
             required |-> <<"name">>]],
       [name |-> "time",
        description |-> "Get the current time",
        inputSchema |-> [type |-> "object", properties |-> EmptyDict]] >>

\* Variant: the error message is not an f-string, the name is not put in
call_tool_PlainMessage(name, arguments, clock) ==
    IF name = "hello"
    THEN IF "name" \in DOMAIN arguments
         THEN Ok(<<TextContent("Hello, " \o Format(arguments["name"])
                                \o "! Welcome to MCP.")>>)
         ELSE Raise("KeyError", <<"name">>)
    ELSE IF name = "time"
    THEN Ok(<<TextContent("Current time: " \o isoformat(clock))>>)
    ELSE Raise("ValueError", <<"Unknown tool: {name}">>)

\* Variant: the greeting formats the tool name, not arguments['name']
call_tool_GreetsToolName(name, arguments, clock) ==
    IF name = "hello"
    THEN IF "name" \in DOMAIN arguments
         THEN Ok(<<TextContent("Hello, " \o name \o "! Welcome to MCP.")>>)
         ELSE Raise("KeyError", <<"name">>)
    ELSE IF name = "time"
    THEN Ok(<<TextContent("Current time: " \o isoformat(clock))>>)
    ELSE Raise("ValueError", <<"Unknown tool: " \o name>>)

\* Variant: the handler keeps the arguments of the previous call in a
\* module-level variable and greets a repeated caller differently
call_tool_RemembersCaller(name, arguments, clock) ==
    IF name = "hello"
    THEN IF "name" \in DOMAIN arguments
         THEN IF "req" \in DOMAIN last /\ last.req.op = "call"
                    /\ last.req.arguments = arguments
              THEN Ok(<<TextContent("Hello again, " \o Format(arguments["name"])
                                     \o "! Welcome to MCP.")>>)
              ELSE Ok(<<TextContent("Hello, " \o Format(arguments["name"])
                                     \o "! Welcome to MCP.")>>)
         ELSE Raise("KeyError", <<"name">>)
    ELSE IF name = "time"
    THEN Ok(<<TextContent("Current time: " \o isoformat(clock))>>)
    ELSE Raise("ValueError", <<"Unknown tool: " \o name>>)

call_tool(name, arguments, clock) ==
    IF name = "hello"
    THEN IF "name" \in DOMAIN arguments
         THEN Ok(<<TextContent("Hello, " \o Format(arguments["name"])
                                \o "! Welcome to MCP.")>>)
         ELSE Raise("KeyError", <<"name">>)
    ELSE IF name = "time"
    THEN Ok(<<TextContent("Current time: " \o isoformat(clock))>>)
    ELSE Raise("ValueError", <<"Unknown tool: " \o name>>)

Outcome(req, clock) ==
    IF req.op = "list" THEN Ok(list_tools)
    ELSE call_tool(req.name, req.arguments, clock)

\* What the transport gets back from one invocation; a "time" call is
\* recorded with the clock reading of its moment.
Invocation(req, clock) ==
    IF req.op = "call" /\ req.name = "time"
    THEN [req |-> req, outcome |-> Outcome(req, clock), at |-> clock]
    ELSE [req |-> req, outcome |-> Outcome(req, clock)]

IsInvocation(inv) == "req" \in DOMAIN inv
IsList(inv) == IsInvocation(inv) /\ inv.req.op = "list"
IsCall(inv) == IsInvocation(inv) /\ inv.req.op = "call"
IsHello(inv) == IsCall(inv) /\ inv.req.name = "hello"
IsTime(inv) == IsCall(inv) /\ inv.req.name = "time"

-----------------------------------------------------------------------------
(* State machine *)

Init ==
    /\ now = 0
    /\ pending = {}
    /\ last = None
    /\ mark = None
    /\ backSinceLast = FALSE
    /\ backSinceMark = FALSE

\* The transport receives a request and schedules its handler.
Issue ==
    \E req \in Requests :
        /\ Cardinality(pending) < MaxInFlight
        /\ req \notin pending
        /\ pending' = pending \cup {req}
        /\ UNCHANGED <<now, last, mark, backSinceLast, backSinceMark>>

\* Variant: an exception of a handler ends the loop, and the requests
\* still in flight are dropped
Handle_FailureStopsLoop ==
    \E req \in pending :
        /\ pending' = (IF IsRaised(Outcome(req, now)) THEN {} ELSE pending \ {req})
        /\ last' = Invocation(req, now)
        /\ backSinceLast' = FALSE
        /\ \/ UNCHANGED <<mark, backSinceMark>>
           \/ /\ IsHello(last) \/ IsTime(last)
              /\ mark' = last
              /\ backSinceMark' = backSinceLast
        /\ UNCHANGED now

\* The event loop runs one scheduled handler to completion (the handlers
\* have no await, so nothing interleaves inside one).  The client may
\* remember the invocation that was the most recent one until now.
Handle ==
    \E req \in pending :
        /\ pending' = pending \ {req}
        /\ last' = Invocation(req, now)
        /\ backSinceLast' = FALSE
        /\ \/ UNCHANGED <<mark, backSinceMark>>
           \/ /\ IsHello(last) \/ IsTime(last)
              /\ mark' = last
              /\ backSinceMark' = backSinceLast
        /\ UNCHANGED now

\* The wall clock advances.
Tick ==
    /\ now < MaxClock
    /\ now' = now + 1
    /\ UNCHANGED <<pending, last, mark, backSinceLast, backSinceMark>>

\* The wall clock is set back (clock adjustment, end of daylight saving
\* time: datetime.now() is the naive local time).
ClockSetBack ==
    \E t \in 0..(now - 1) :
        /\ now' = t
        /\ backSinceLast' = IsTime(last)
        /\ backSinceMark' = IsTime(mark)
        /\ UNCHANGED <<pending, last, mark>>

Next == Issue \/ Handle \/ Tick \/ ClockSetBack

Spec == Init /\ [][Next]_vars

-----------------------------------------------------------------------------
(* Vocabulary of the properties *)

\* sub occurs in s
Contains(s, sub) ==
    \E i \in 1..(Len(s) - Len(sub) + 1) : SubSeq(s, i, i + Len(sub) - 1) = sub

StartsWith(s, prefix) ==
    Len(s) >= Len(prefix) /\ SubSeq(s, 1, Len(prefix)) = prefix

IsDigit(c) == \E d \in 0..9 : ToString(d) = c
DigitVal(c) == CHOOSE d \in 0..9 : ToString(d) = c
AllDigits(s) == \A i \in 1..Len(s) : IsDigit(SubSeq(s, i, i))

RECURSIVE ParseNat(_)
ParseNat(s) ==
    IF Len(s) = 0 THEN 0
    ELSE ParseNat(SubSeq(s, 1, Len(s) - 1)) * 10 + DigitVal(SubSeq(s, Len(s), Len(s)))

\* An ISO-8601 date-time of the model's day, YYYY-MM-DDTHH:MM:SS[.ffffff]
IsIsoDateTime(s) ==
    /\ Len(s) \in {19, 26}
    /\ SubSeq(s, 1, 17) = "2024-01-01T00:00:"
    /\ AllDigits(SubSeq(s, 18, 19))
    /\ Len(s) = 26 => SubSeq(s, 20, 20) = "." /\ AllDigits(SubSeq(s, 21, 26))

\* Microseconds since the epoch of the model that a date-time text denotes
MicrosOfIso(s) ==
    ParseNat(SubSeq(s, 18, 19)) * MicrosPerSecond
        + (IF Len(s) = 26 THEN ParseNat(SubSeq(s, 21, 26)) ELSE 0)

\* Microseconds since the epoch of the model at a clock reading
MicrosOfClock(t) == Second(t) * MicrosPerSecond + Microsecond(t)

TimePrefix == "Current time: "
TimestampOf(text) == SubSeq(text, Len(TimePrefix) + 1, Len(text))

\* The call returned exactly one content item, of type text
OneText(o) == IsOk(o) /\ Len(o.ok) = 1 /\ o.ok[1].type = "text"

\* The time call inv succeeded with one text item carrying a date-time
TimeReturned(inv) ==
    /\ OneText(inv.outcome)
    /\ StartsWith(inv.outcome.ok[1].text, TimePrefix)
    /\ IsIsoDateTime(TimestampOf(inv.outcome.ok[1].text))

ReturnedMicros(inv) == MicrosOfIso(TimestampOf(inv.outcome.ok[1].text))

IsUnknownToolError(o) ==
    /\ IsRaised(o)
    /\ Len(o.raised.args) = 1
    /\ StartsWith(o.raised.args[1], "Unknown tool")

GenericLookupErrors == {"LookupError", "KeyError", "IndexError"}

HelloWithoutName(inv) == IsHello(inv) /\ "name" \notin DOMAIN inv.req.arguments

ToolNames == {list_tools[i].name : i \in 1..Len(list_tools)}
SchemaOf(name) ==
    list_tools[CHOOSE i \in 1..Len(list_tools) : list_tools[i].name = name].inputSchema

\* arguments is an object the JSON schema accepts: the required properties
\* are present and each declared property that is present has its type
Conforms(schema, arguments) ==
    /\ "required" \in DOMAIN schema =>
            \A i \in 1..Len(schema.required) : schema.required[i] \in DOMAIN arguments
    /\ \A k \in DOMAIN schema.properties \cap DOMAIN arguments :
            schema.properties[k].type = "string" => IsStr(arguments[k])

\* A step in which a handler ran
Handled == Cardinality(pending') < Cardinality(pending)

-----------------------------------------------------------------------------
(* Properties *)

\* C1: a hello call whose arguments lack the key "name" fails with a defined
\* "missing required argument" error, not with a generic lookup failure.
C1_MissingArgumentIsDefinedError ==
    HelloWithoutName(last) =>
        /\ IsRaised(last.outcome)
        /\ last.outcome.raised.exc \notin GenericLookupErrors

\* C2: a call of a name that is neither "hello" nor "time" raises the
\* "unknown tool" error, whose message contains the name, whatever the
\* arguments, and returns nothing.
C2_UnknownToolRejected ==
    IsCall(last) /\ last.req.name \notin {"hello", "time"} =>
        /\ ~IsOk(last.outcome)
        /\ IsUnknownToolError(last.outcome)
        /\ Contains(last.outcome.raised.args[1], last.req.name)

C2_Witness ==
    /\ IsCall(last)
    /\ last.req.name = "bogus"
    /\ last.req.arguments # EmptyDict
    /\ IsRaised(last.outcome)

\* C3: a hello call whose arguments hold a string n under "name" returns
\* exactly one text item "Hello, n! Welcome to MCP.", whatever other keys
\* the arguments hold.
C3_HelloGreetsName ==
    /\ IsHello(last)
    /\ "name" \in DOMAIN last.req.arguments
    /\ IsStr(last.req.arguments["name"])
    => /\ OneText(last.outcome)
       /\ last.outcome.ok[1].text
            = "Hello, " \o last.req.arguments["name"].str \o "! Welcome to MCP."

C3_Witness ==
    /\ IsHello(last)
    /\ DOMAIN last.req.arguments = {"name", "lang"}
    /\ IsOk(last.outcome)
    /\ last.outcome.ok[1].text = "Hello, Bob! Welcome to MCP."

\* C4: list returns, after any sequence of list and call invocations, exactly
\* two descriptors, "hello" then "time", each with a non-empty description.
C4_ListReturnsTheTwoTools ==
    IsList(last) =>
        /\ IsOk(last.outcome)
        /\ Len(last.outcome.ok) = 2
        /\ last.outcome.ok[1].name = "hello"
        /\ last.outcome.ok[2].name = "time"
        /\ \A i \in 1..2 : last.outcome.ok[i].description # ""

C4_Witness ==
    /\ IsList(last)
    /\ IsHello(mark)
    /\ IsRaised(mark.outcome)
    /\ pending # {}

\* C5: a time call returns, whatever its arguments, exactly one text item:
\* "Current time: " followed by the date-time of the clock reading at the
\* moment of the call.
C5_TimeReturnsClockReading ==
    IsTime(last) =>
        /\ TimeReturned(last)
        /\ ReturnedMicros(last) = MicrosOfClock(last.at)

C5_Witness ==
    /\ IsTime(last)
    /\ "name" \in DOMAIN last.req.arguments
    /\ IsOk(last.outcome)
    /\ last.at > 0
    /\ Microsecond(last.at) # 0

\* C6: a hello call returns what an earlier hello call with the same
\* arguments returned, whatever was called in between.
C6_HelloDependsOnArgumentsOnly ==
    IsHello(mark) /\ IsHello(last) /\ last.req.arguments = mark.req.arguments
        => last.outcome = mark.outcome

C6_Witness ==
    /\ IsHello(mark)
    /\ IsHello(last)
    /\ last.req.arguments = mark.req.arguments
    /\ IsOk(last.outcome)

\* C7 as stated: of two time calls, both succeed and the later one returns a
\* timestamp that is not less than the one the earlier call returned.
C7_TimestampsNonDecreasing ==
    IsTime(mark) /\ IsTime(last) =>
        /\ TimeReturned(mark)
        /\ TimeReturned(last)
        /\ ReturnedMicros(last) >= ReturnedMicros(mark)

\* C7 amended: of two time calls, both succeed, and the later one returns a
\* timestamp that is not less than the one the earlier call returned provided
\* the wall clock was not set back between the two calls.
C7_NonDecreasingUnlessSetBack ==
    IsTime(mark) /\ IsTime(last) =>
        /\ TimeReturned(mark)
        /\ TimeReturned(last)
        /\ ~backSinceMark => ReturnedMicros(last) >= ReturnedMicros(mark)

C7_Witness ==
    /\ IsTime(mark)
    /\ IsTime(last)
    /\ ~backSinceMark
    /\ ReturnedMicros(last) > ReturnedMicros(mark)

C9_DispatcherHandlesTheRegistry ==
    IsCall(last) =>
        (last.req.name \in ToolNames <=> ~IsUnknownToolError(last.outcome))

C9_Witness ==
    /\ HelloWithoutName(last)
    /\ IsRaised(last.outcome)
    /\ IsCall(mark)
    /\ mark.req.name = "time"

\* C10: a call of a registered tool with arguments that conform to the
\* tool's declared input schema returns exactly one text item; a call fails
\* only if the name is not registered or the arguments violate the schema.
C10_ConformingCallsSucceed ==
    IsCall(last) =>
        /\ (/\ last.req.name \in ToolNames
            /\ Conforms(SchemaOf(last.req.name), last.req.arguments))
                => OneText(last.outcome)
        /\ IsRaised(last.outcome) =>
            \/ last.req.name \notin ToolNames
            \/ ~Conforms(SchemaOf(last.req.name), last.req.arguments)

C10_Witness ==
    /\ IsHello(last)
    /\ Conforms(SchemaOf("hello"), last.req.arguments)
    /\ "lang" \in DOMAIN last.req.arguments
    /\ OneText(last.outcome)

====
